---------------------------- MODULE Spec2Model ----------------------------
(***************************************************************************)
(* Model of the remote export worker of osm2vectortiles                    *)
(* (src/export/worker/export.py).  Every worker process runs export_remote:*)
(* lease a message from the job queue, decode it, run the renderer, upload *)
(* the rendered archive, delete the message, and loop until the queue      *)
(* reports no message.  The queue and the bucket are shared by all workers.*)
(***************************************************************************)
EXTENDS Integers, Sequences, FiniteSets, TLC

\* ----------------------------------------------------------------- bounds
NumWorkers == 2
NumMsgs == 2

Workers == 1..NumWorkers
Msgs == 1..NumMsgs

\* Python's None: what queue.read returns when no message is visible; ids
\* of messages and workers start at 1.
None == 0

\* ------------------------------------------------------------ job bodies
\* A message body is either a JSON object with (some of) the job fields or
\* text that json.loads rejects.
Malformed == [garbage |-> TRUE]

Bounds1 == [west |-> -10, south |-> 40, east |-> 10, north |-> 60]

JobA == [x |-> 3, y |-> 5, bounds |-> Bounds1, min_zoom |-> 4, max_zoom |-> 8]
JobB == [x |-> 12, y |-> 0, bounds |-> Bounds1, min_zoom |-> 0, max_zoom |-> 5]
NoX == [y |-> 5, bounds |-> Bounds1, min_zoom |-> 4, max_zoom |-> 8]

\* the job of JobA's tile with other bounds and zooms; a job with negative
\* coordinates and the bounds of the whole world
BoundsWorld == [west |-> -180, south |-> -85, east |-> 180, north |-> 85]
Bounds2 == [west |-> 7, south |-> -46, east |-> 105, north |-> 0]

JobA2 == [x |-> 3, y |-> 5, bounds |-> Bounds2, min_zoom |-> 0, max_zoom |-> 14]
JobC == [x |-> -1, y |-> 35, bounds |-> BoundsWorld, min_zoom |-> 10,
         max_zoom |-> 10]

\* a job whose min_zoom is a JSON string, and one whose bounds is a JSON
\* string; strs names the fields that json.loads returns as str
BadZoom == [x |-> 3, y |-> 5, bounds |-> Bounds1,
            min_zoom |-> <<"f", "o", "u", "r">>, max_zoom |-> 8,
            strs |-> {"min_zoom"}]
BadBounds == [x |-> 3, y |-> 5, bounds |-> <<"a", "l", "l">>,
              min_zoom |-> 4, max_zoom |-> 8, strs |-> {"bounds"}]

Bodies == <<JobA, JobB, NoX, Malformed>>

\* json.loads(message.get_body()) and the subscripts of lines 97-109: TRUE
\* when no exception is raised before the renderer is started.
Fields == {"x", "y", "bounds", "min_zoom", "max_zoom"}

Decodes(b) ==
  /\ "garbage" \notin DOMAIN b
  /\ Fields \subseteq DOMAIN b
  /\ "bounds" \notin (IF "strs" \in DOMAIN b THEN b.strs ELSE {})
  /\ {"west", "south", "east", "north"} \subseteq DOMAIN b.bounds

\* ------------------------------------------------------------- formatting
\* Strings are sequences of one-character strings.
DigitChar(d) ==
  CASE d = 0 -> "0" [] d = 1 -> "1" [] d = 2 -> "2" [] d = 3 -> "3"
    [] d = 4 -> "4" [] d = 5 -> "5" [] d = 6 -> "6" [] d = 7 -> "7"
    [] d = 8 -> "8" [] d = 9 -> "9"

RECURSIVE NatStr(_)
NatStr(n) == IF n < 10 THEN <<DigitChar(n)>>
             ELSE NatStr(n \div 10) \o <<DigitChar(n % 10)>>

\* '{}'.format(n) of an integer
IntStr(n) == IF n < 0 THEN <<"-">> \o NatStr(0 - n) ELSE NatStr(n)

Suffix == <<".", "m", "b", "t", "i", "l", "e", "s">>

\* Mutant: the zoom range is part of the file name.
MbtilesFileWithZoom(b) ==
  IntStr(b.x) \o <<"_">> \o IntStr(b.y) \o <<"_">> \o IntStr(b.min_zoom)
    \o Suffix

\* '{}_{}.mbtiles'.format(body['x'], body['y'])
MbtilesFile(b) == IntStr(b.x) \o <<"_">> \o IntStr(b.y) \o Suffix

\* os.path.basename: what follows the last "/"
RECURSIVE Basename(_)
Basename(p) ==
  IF \E i \in 1..Len(p) : p[i] = "/"
    THEN Basename(SubSeq(p, (CHOOSE i \in 1..Len(p) : p[i] = "/") + 1, Len(p)))
    ELSE p

\* Mutant: the key is the absolute path of the file, not its base name.
KeyNameFullPath(file) == <<"/", "w", "/">> \o file

\* Mutant: every upload creates a new object instead of replacing the one
\* under the key.
PutObjectAppend(st, key, content) ==
  st \cup {[key |-> key \o IntStr(Cardinality(st)), content |-> content]}

\* bucket.new_key(keyname) + set_contents_from_filename: the object under
\* keyname is replaced by the file's contents.
KeyName(file) == Basename(file)

PutObject(st, key, content) ==
  {o \in st : o.key # key} \cup {[key |-> key, content |-> content]}

\* ------------------------------------------------------ renderer command
\* worker configuration: --tm2source, the working directory, TILELIVE_BIN
Tm2Source == <<"o", "s", "m">>
Cwd == <<"/", "w">>
TileliveBin == "tl"

\* os.path.abspath of a path without "." and ".." components
AbsPath(p) == IF Len(p) > 0 /\ p[1] = "/" THEN p ELSE Cwd \o <<"/">> \o p

\* Mutant: the bounds are written in the order west, east, south, north.
BboxWrongOrder(bounds) ==
  IntStr(bounds.west) \o <<" ">> \o IntStr(bounds.east) \o <<" ">>
    \o IntStr(bounds.south) \o <<" ">> \o IntStr(bounds.north)

\* '{} {} {} {}'.format(west, south, east, north)
Bbox(bounds) ==
  IntStr(bounds.west) \o <<" ">> \o IntStr(bounds.south) \o <<" ">>
    \o IntStr(bounds.east) \o <<" ">> \o IntStr(bounds.north)

\* str(min_zoom), str(max_zoom): a JSON number is printed in decimal, a JSON
\* string (field named in b.strs) is passed on as it is
StrFields(b) == IF "strs" \in DOMAIN b THEN b.strs ELSE {}

ZoomStr(b, f) == IF f \in StrFields(b) THEN b[f] ELSE IntStr(b[f])

\* Mutant: the configured scheme is passed on to the renderer.
CreateTileliveCommandScheme(tm2source, mbtiles_file, bbox, min_zoom, max_zoom, sch) ==
  << TileliveBin, "copy",
     "-s", sch,
     "-b", bbox,
     "--min-zoom", min_zoom,
     "--max-zoom", max_zoom,
     [scheme |-> "tmsource://", path |-> AbsPath(tm2source)],
     [scheme |-> "mbtiles://", path |-> AbsPath(mbtiles_file)] >>

\* create_tilelive_command(tm2source, mbtiles_file, bbox, min_zoom,
\* max_zoom, scheme)
CreateTileliveCommand(tm2source, mbtiles_file, bbox, min_zoom, max_zoom, sch) ==
  << TileliveBin, "copy",
     "-s", "pyramid",
     "-b", bbox,
     "--min-zoom", min_zoom,
     "--max-zoom", max_zoom,
     [scheme |-> "tmsource://", path |-> AbsPath(tm2source)],
     [scheme |-> "mbtiles://", path |-> AbsPath(mbtiles_file)] >>

\* lines 97-111 of export_remote for a body that decodes
TileliveCommand(b, sch) ==
  CreateTileliveCommand(Tm2Source, MbtilesFile(b), Bbox(b.bounds),
                        ZoomStr(b, "min_zoom"), ZoomStr(b, "max_zoom"), sch)

\* ------------------------------------------------------------------ state
VARIABLES
  body,      \* body[m]: the body of message m (fixed once enqueued)
  inQueue,   \* inQueue[m]: m has not been deleted from the queue
  leased,    \* leased[m]: a read made m invisible and its timeout has not run out
  store,     \* the bucket: a set of objects [key, content]
  pc,        \* pc[w]: where worker w stands in export_remote
  msg,       \* msg[w]: the message returned by w's last queue.read, or None
  file,      \* file[w]: mbtiles_file of the current cycle
  cmd,       \* cmd[w]: tilelive_command of the current cycle
  scheme,    \* scheme[w]: --render_scheme of worker w
  cyc,       \* cyc[w]: what happened in w's current loop iteration
  status,    \* status[w]: <<>> while the process runs, then <<exit status>>
  err        \* err[w]: the exception that ended the process, or "none"

vars == <<body, inQueue, leased, store, pc, msg, file, cmd, scheme, cyc,
          status, err>>

\* rcs: the exit codes of the renderer runs of this iteration; child: the
\* worker has started a renderer subprocess (Popen) that it has not waited
\* for
NewCycle == [renders |-> 0, rcs |-> <<>>, uploads |-> 0, upOk |-> FALSE,
             deletes |-> 0, delOk |-> FALSE, child |-> FALSE]

\* exit codes of the renderer: success, failure, killed by a signal
ExitCodes == {0, 1, -9}

\* Message ids carry no meaning, so of the assignments of bodies to messages
\* that differ only by a renaming of the messages one is kept.
BodyChoices ==
  {f \in [Msgs -> 1..Len(Bodies)] :
     \A m \in Msgs : m + 1 \in Msgs => f[m] <= f[m + 1]}

Init ==
  /\ \E f \in BodyChoices : body = [m \in Msgs |-> Bodies[f[m]]]
  /\ inQueue = [m \in Msgs |-> TRUE]
  /\ leased = [m \in Msgs |-> FALSE]
  /\ store = {}
  /\ pc = [w \in Workers |-> "read"]
  /\ msg = [w \in Workers |-> None]
  /\ file = [w \in Workers |-> <<>>]
  /\ cmd = [w \in Workers |-> <<>>]
  /\ scheme = [w \in Workers |-> "pyramid"]
  /\ cyc = [w \in Workers |-> NewCycle]
  /\ status = [w \in Workers |-> <<>>]
  /\ err = [w \in Workers |-> "none"]

\* ---------------------------------------------------------------- helpers
Visible(m) == inQueue[m] /\ ~leased[m]

\* The locals of export_remote (message, mbtiles_file) and the record of the
\* current iteration are lost when the process is ended by an exception or
\* killed.
Ended(w) ==
  /\ msg' = [msg EXCEPT ![w] = None]
  /\ file' = [file EXCEPT ![w] = <<>>]
  /\ cmd' = [cmd EXCEPT ![w] = <<>>]
  /\ cyc' = [cyc EXCEPT ![w] = NewCycle]

\* Mutant: the exception is caught at the top level and the process exits
\* with status 0.
RaiseExitZero(w, e) ==
  /\ pc' = [pc EXCEPT ![w] = "failed"]
  /\ err' = [err EXCEPT ![w] = e]
  /\ status' = [status EXCEPT ![w] = <<0>>]
  /\ Ended(w)

\* Mutant: the exception is caught inside the loop, which goes on to the
\* next queue.read.
RaiseContinue(w, e) ==
  /\ pc' = [pc EXCEPT ![w] = "read"]
  /\ UNCHANGED <<err, status, msg, file, cmd, cyc>>

\* an uncaught exception leaves export_remote and main: the process ends
\* with status 1
Raise(w, e) ==
  /\ pc' = [pc EXCEPT ![w] = "failed"]
  /\ err' = [err EXCEPT ![w] = e]
  /\ status' = [status EXCEPT ![w] = <<1>>]
  /\ Ended(w)

\* ---------------------------------------------------------------- actions
\* Mutant: queue.read returns messages whose lease has not run out.
ReadableIgnoreLease == {m \in Msgs : inQueue[m]}

\* the messages queue.read may return to a worker
Readable == {m \in Msgs : Visible(m)}

\* Mutant: queue.read reports no message although one is visible.
ReadNoneSpurious(w) ==
  /\ pc[w] = "read"
  /\ pc' = [pc EXCEPT ![w] = "done"]
  /\ status' = [status EXCEPT ![w] = <<0>>]
  /\ UNCHANGED <<body, scheme, inQueue, leased, store, msg, file, cmd, cyc, err>>

\* queue.read(visibility_timeout=timeout) finds no visible message:
\* print 'No jobs to read'; break; export_remote and main return.
ReadNone(w) ==
  /\ pc[w] = "read"
  /\ Readable = {}
  /\ pc' = [pc EXCEPT ![w] = "done"]
  /\ status' = [status EXCEPT ![w] = <<0>>]
  /\ UNCHANGED <<body, scheme, inQueue, leased, store, msg, file, cmd, cyc, err>>

\* Mutant: the message is deleted as soon as it has been read.
ReadMsgDeleteFirst(w, m) ==
  /\ pc[w] = "read"
  /\ m \in Readable
  /\ inQueue' = [inQueue EXCEPT ![m] = FALSE]
  /\ IF Decodes(body[m])
       THEN /\ msg' = [msg EXCEPT ![w] = m]
            /\ file' = [file EXCEPT ![w] = MbtilesFile(body[m])]
            /\ cmd' = [cmd EXCEPT ![w] = TileliveCommand(body[m], scheme[w])]
            /\ cyc' = [cyc EXCEPT ![w] = [NewCycle EXCEPT !.renders = 1, !.child = TRUE]]
            /\ pc' = [pc EXCEPT ![w] = "render"]
            /\ UNCHANGED <<status, err>>
       ELSE Raise(w, "DecodeError")
  /\ UNCHANGED <<body, scheme, leased, store>>

\* queue.read returns message m and hides it from other consumers; lines
\* 95-111 decode the body and build the renderer command, and export_local
\* starts the renderer (Popen).  A body that does not decode raises before
\* the renderer is started.
\* Mutant: a body that does not decode is skipped and the loop goes on.
ReadMsgSkipBad(w, m) ==
  /\ pc[w] = "read"
  /\ m \in Readable
  /\ leased' = [leased EXCEPT ![m] = TRUE]
  /\ IF Decodes(body[m])
       THEN /\ msg' = [msg EXCEPT ![w] = m]
            /\ file' = [file EXCEPT ![w] = MbtilesFile(body[m])]
            /\ cmd' = [cmd EXCEPT ![w] = TileliveCommand(body[m], scheme[w])]
            /\ cyc' = [cyc EXCEPT ![w] = [NewCycle EXCEPT !.renders = 1, !.child = TRUE]]
            /\ pc' = [pc EXCEPT ![w] = "render"]
            /\ UNCHANGED <<status, err>>
       ELSE UNCHANGED <<pc, msg, file, cmd, cyc, status, err>>
  /\ UNCHANGED <<body, scheme, inQueue, store>>

ReadMsg(w, m) ==
  /\ pc[w] = "read"
  /\ m \in Readable
  /\ leased' = [leased EXCEPT ![m] = TRUE]
  /\ IF Decodes(body[m])
       THEN /\ msg' = [msg EXCEPT ![w] = m]
            /\ file' = [file EXCEPT ![w] = MbtilesFile(body[m])]
            /\ cmd' = [cmd EXCEPT ![w] = TileliveCommand(body[m], scheme[w])]
            /\ cyc' = [cyc EXCEPT ![w] = [NewCycle EXCEPT !.renders = 1, !.child = TRUE]]
            /\ pc' = [pc EXCEPT ![w] = "render"]
            /\ UNCHANGED <<status, err>>
       ELSE Raise(w, "DecodeError")
  /\ UNCHANGED <<body, scheme, inQueue, store>>

\* queue.read itself raises (network, authentication)
ReadFail(w) ==
  /\ pc[w] = "read"
  /\ Raise(w, "ReadError")
  /\ UNCHANGED <<body, scheme, inQueue, leased, store>>

\* Mutant: the exit code of the renderer is not looked at.
AfterRenderIgnoreRc(rc) == "upload"

\* where export_remote goes when export_local has seen exit code rc
AfterRender(rc) == IF rc # 0 THEN "raise" ELSE "upload"

\* export_local: the renderer exits with code rc; proc.wait() returns and a
\* non-zero returncode raises CalledProcessError.
RenderExit(w, rc) ==
  /\ pc[w] = "render"
  /\ IF AfterRender(rc) = "raise"
       THEN Raise(w, "CalledProcessError")
       ELSE /\ pc' = [pc EXCEPT ![w] = "upload"]
            /\ cyc' = [cyc EXCEPT ![w].rcs = Append(@, rc), ![w].child = FALSE]
            /\ UNCHANGED <<status, err, msg, file, cmd>>
  /\ UNCHANGED <<body, scheme, inQueue, leased, store>>

\* Mutant: the loop goes back to queue.read after the upload, without the
\* delete.
UploadOkSkipDelete(w) ==
  /\ pc[w] = "upload"
  /\ store' = PutObject(store, KeyName(file[w]), msg[w])
  /\ cyc' = [cyc EXCEPT ![w].uploads = @ + 1, ![w].upOk = TRUE]
  /\ pc' = [pc EXCEPT ![w] = "read"]
  /\ UNCHANGED <<body, scheme, inQueue, leased, msg, file, cmd, status, err>>

\* upload_mbtiles(bucket, mbtiles_file) returns
UploadOk(w) ==
  /\ pc[w] = "upload"
  /\ store' = PutObject(store, KeyName(file[w]), msg[w])
  /\ cyc' = [cyc EXCEPT ![w].uploads = @ + 1, ![w].upOk = TRUE]
  /\ pc' = [pc EXCEPT ![w] = "delete"]
  /\ UNCHANGED <<body, scheme, inQueue, leased, msg, file, cmd, status, err>>

\* Mutant: the upload error is logged and the message is deleted anyway.
UploadFailSwallowed(w) ==
  /\ pc[w] = "upload"
  /\ cyc' = [cyc EXCEPT ![w].uploads = @ + 1]
  /\ pc' = [pc EXCEPT ![w] = "delete"]
  /\ UNCHANGED <<body, scheme, inQueue, leased, store, msg, file, cmd, status, err>>

\* Mutant: after a failed upload the job is rendered again in the same
\* iteration.
UploadFailRerender(w) ==
  /\ pc[w] = "upload"
  /\ cyc' = [cyc EXCEPT ![w].uploads = @ + 1, ![w].renders = @ + 1,
                         ![w].child = TRUE]
  /\ pc' = [pc EXCEPT ![w] = "render"]
  /\ UNCHANGED <<body, scheme, inQueue, leased, store, msg, file, cmd, status, err>>

\* upload_mbtiles raises (I/O or transport error): nothing is stored
UploadFail(w) ==
  /\ pc[w] = "upload"
  /\ Raise(w, "UploadError")
  /\ UNCHANGED <<body, scheme, inQueue, leased, store>>

\* Mutant: the delete returns without removing the message.
DeleteOkKeepsMessage(w) ==
  /\ pc[w] = "delete"
  /\ leased' = [leased EXCEPT ![msg[w]] = FALSE]
  /\ cyc' = [cyc EXCEPT ![w].deletes = @ + 1, ![w].delOk = TRUE]
  /\ pc' = [pc EXCEPT ![w] = "read"]
  /\ UNCHANGED <<body, scheme, inQueue, store, msg, file, cmd, status, err>>

\* Mutant: the loop is left after the first job.
DeleteOkBreak(w) ==
  /\ pc[w] = "delete"
  /\ inQueue' = [inQueue EXCEPT ![msg[w]] = FALSE]
  /\ leased' = [leased EXCEPT ![msg[w]] = FALSE]
  /\ cyc' = [cyc EXCEPT ![w].deletes = @ + 1, ![w].delOk = TRUE]
  /\ pc' = [pc EXCEPT ![w] = "done"]
  /\ status' = [status EXCEPT ![w] = <<0>>]
  /\ UNCHANGED <<body, scheme, store, msg, file, cmd, err>>

\* queue.delete_message(message) returns: the message is removed if it is
\* still in the queue; the loop goes back to queue.read.
DeleteOk(w) ==
  /\ pc[w] = "delete"
  /\ inQueue' = [inQueue EXCEPT ![msg[w]] = FALSE]
  /\ leased' = [leased EXCEPT ![msg[w]] = FALSE]
  /\ cyc' = [cyc EXCEPT ![w].deletes = @ + 1, ![w].delOk = TRUE]
  /\ pc' = [pc EXCEPT ![w] = "read"]
  /\ UNCHANGED <<body, scheme, store, msg, file, cmd, status, err>>

\* queue.delete_message raises: the queue is unchanged
DeleteFail(w) ==
  /\ pc[w] = "delete"
  /\ Raise(w, "DeleteError")
  /\ UNCHANGED <<body, scheme, inQueue, leased, store>>

\* KeyboardInterrupt while export_local reads the renderer's output (lines
\* 56-57): there is no try/finally around the loop, so the exception leaves
\* export_local, export_remote and main without proc.wait().
Interrupt(w) ==
  /\ pc[w] = "render"
  /\ pc' = [pc EXCEPT ![w] = "failed"]
  /\ err' = [err EXCEPT ![w] = "KeyboardInterrupt"]
  /\ status' = [status EXCEPT ![w] = <<1>>]
  /\ msg' = [msg EXCEPT ![w] = None]
  /\ file' = [file EXCEPT ![w] = <<>>]
  /\ cmd' = [cmd EXCEPT ![w] = <<>>]
  /\ cyc' = [cyc EXCEPT ![w] = [NewCycle EXCEPT !.child = TRUE]]
  /\ UNCHANGED <<body, scheme, inQueue, leased, store>>

\* the worker process is killed at any point of the loop
Crash(w) ==
  /\ pc[w] \in {"read", "render", "upload", "delete"}
  /\ pc' = [pc EXCEPT ![w] = "crashed"]
  /\ Ended(w)
  /\ UNCHANGED <<body, scheme, inQueue, leased, store, status, err>>

\* the visibility timeout of a leased message runs out: it is visible again
LeaseExpire(m) ==
  /\ inQueue[m]
  /\ leased[m]
  /\ leased' = [leased EXCEPT ![m] = FALSE]
  /\ UNCHANGED <<body, scheme, inQueue, store, pc, msg, file, cmd,
                 cyc, status, err>>

Next ==
  \/ \E w \in Workers : ReadNone(w)
  \/ \E w \in Workers, m \in Msgs : ReadMsg(w, m)
  \/ \E w \in Workers : ReadFail(w)
  \/ \E w \in Workers, rc \in ExitCodes : RenderExit(w, rc)
  \/ \E w \in Workers : UploadOk(w)
  \/ \E w \in Workers : UploadFail(w)
  \/ \E w \in Workers : DeleteOk(w)
  \/ \E w \in Workers : DeleteFail(w)
  \/ \E w \in Workers : Crash(w)
  \/ \E m \in Msgs : LeaseExpire(m)

Spec == Init /\ [][Next]_vars

\* The construction of the renderer command and of the artifact name on
\* jobs of all kinds and both render schemes, followed through to the upload.
Schemes == {"pyramid", "scanline"}

CmdBodies == <<JobA, JobA2, JobB, JobC>>

CmdBodyChoices ==
  {f \in [Msgs -> 1..Len(CmdBodies)] :
     \A m \in Msgs : m + 1 \in Msgs => f[m] <= f[m + 1]}

InitCmd ==
  /\ \E f \in CmdBodyChoices : body = [m \in Msgs |-> CmdBodies[f[m]]]
  /\ scheme \in [Workers -> Schemes]
  /\ inQueue = [m \in Msgs |-> TRUE]
  /\ leased = [m \in Msgs |-> FALSE]
  /\ store = {}
  /\ pc = [w \in Workers |-> "read"]
  /\ msg = [w \in Workers |-> None]
  /\ file = [w \in Workers |-> <<>>]
  /\ cmd = [w \in Workers |-> <<>>]
  /\ cyc = [w \in Workers |-> NewCycle]
  /\ status = [w \in Workers |-> <<>>]
  /\ err = [w \in Workers |-> "none"]

NextCmd ==
  \/ \E w \in Workers, m \in Msgs : ReadMsg(w, m)
  \/ \E w \in Workers : RenderExit(w, 0)
  \/ \E w \in Workers : UploadOk(w)

SpecCmd == InitCmd /\ [][NextCmd]_vars

\* The workers on a queue with well-formed, mistyped and undecodable bodies.
DecodeBodies == <<JobA, BadZoom, BadBounds, NoX, Malformed>>

DecodeBodyChoices ==
  {f \in [Msgs -> 1..Len(DecodeBodies)] :
     \A m \in Msgs : m + 1 \in Msgs => f[m] <= f[m + 1]}

InitDecode ==
  /\ \E f \in DecodeBodyChoices : body = [m \in Msgs |-> DecodeBodies[f[m]]]
  /\ scheme = [w \in Workers |-> "pyramid"]
  /\ inQueue = [m \in Msgs |-> TRUE]
  /\ leased = [m \in Msgs |-> FALSE]
  /\ store = {}
  /\ pc = [w \in Workers |-> "read"]
  /\ msg = [w \in Workers |-> None]
  /\ file = [w \in Workers |-> <<>>]
  /\ cmd = [w \in Workers |-> <<>>]
  /\ cyc = [w \in Workers |-> NewCycle]
  /\ status = [w \in Workers |-> <<>>]
  /\ err = [w \in Workers |-> "none"]

NextDecode ==
  \/ \E w \in Workers, m \in Msgs : ReadMsg(w, m)
  \/ \E w \in Workers, rc \in ExitCodes : RenderExit(w, rc)
  \/ \E w \in Workers : UploadOk(w)
  \/ \E w \in Workers : DeleteOk(w)
  \/ \E m \in Msgs : LeaseExpire(m)

SpecDecode == InitDecode /\ [][NextDecode]_vars

\* The workers on a queue of well-formed jobs when every renderer run exits
\* 0 and every lease, upload and delete succeeds. A worker process that can
\* take a step takes it: the interpreter keeps running and the renderer
\* exits. Leases may run out at any time, or never.
InitLive ==
  /\ body = [m \in Msgs |-> CmdBodies[((m - 1) % Len(CmdBodies)) + 1]]
  /\ scheme = [w \in Workers |-> "pyramid"]
  /\ inQueue = [m \in Msgs |-> TRUE]
  /\ leased = [m \in Msgs |-> FALSE]
  /\ store = {}
  /\ pc = [w \in Workers |-> "read"]
  /\ msg = [w \in Workers |-> None]
  /\ file = [w \in Workers |-> <<>>]
  /\ cmd = [w \in Workers |-> <<>>]
  /\ cyc = [w \in Workers |-> NewCycle]
  /\ status = [w \in Workers |-> <<>>]
  /\ err = [w \in Workers |-> "none"]

WorkerStep(w) ==
  \/ ReadNone(w)
  \/ \E m \in Msgs : ReadMsg(w, m)
  \/ RenderExit(w, 0)
  \/ UploadOk(w)
  \/ DeleteOk(w)

NextLive ==
  \/ \E w \in Workers : ReadNone(w)
  \/ \E w \in Workers, m \in Msgs : ReadMsg(w, m)
  \/ \E w \in Workers : RenderExit(w, 0)
  \/ \E w \in Workers : UploadOk(w)
  \/ \E w \in Workers : DeleteOk(w)
  \/ \E m \in Msgs : LeaseExpire(m)

SpecLive ==
  InitLive /\ [][NextLive]_vars /\ \A w \in Workers : WF_vars(WorkerStep(w))

\* the workers with the operator's interrupt (Ctrl-C, SIGINT) as well
NextInt == Next \/ \E w \in Workers : Interrupt(w)

SpecInt == Init /\ [][NextInt]_vars

\* ----------------------------------------------------------------- claims
Keys(st) == {o.key : o \in st}

Terminal == {"done", "failed", "crashed"}

\* C1: when the renderer run of a leased message ends with a non-zero exit
\* code, the worker has called neither upload_mbtiles nor delete_message in
\* that iteration and calls neither afterwards: the iteration ends with the
\* CalledProcessError, the bucket and the queue untouched; an upload or a
\* delete is only ever seen in an iteration whose renderer exited with 0.
C1_RenderFailure ==
  /\ [](\A w \in Workers :
          cyc[w].uploads > 0 \/ cyc[w].deletes > 0 => cyc[w].rcs = <<0>>)
  /\ [][\A w \in Workers : \A rc \in ExitCodes \ {0} :
          RenderExit(w, rc) =>
            /\ cyc[w].uploads = 0 /\ cyc[w].deletes = 0
            /\ pc'[w] = "failed" /\ err'[w] = "CalledProcessError"
            /\ store' = store /\ inQueue' = inQueue]_vars

\* a renderer run has failed and the message it was run for is still leased
C1_Witness ==
  \E w \in Workers : \E m \in Msgs :
    /\ pc[w] = "failed" /\ err[w] = "CalledProcessError"
    /\ inQueue[m] /\ leased[m] /\ store = {}

\* C2: when the renderer exited with 0 and the upload fails, delete_message
\* has not been called in that iteration and is not called afterwards: the
\* failing step ends the iteration and leaves the queue as it is; a delete
\* is only ever seen in an iteration whose upload returned.
C2_UploadFailure ==
  /\ [](\A w \in Workers : cyc[w].deletes > 0 => cyc[w].upOk)
  /\ [][\A w \in Workers :
          UploadFail(w) =>
            /\ cyc[w].rcs = <<0>> /\ cyc[w].deletes = 0
            /\ pc'[w] = "failed" /\ err'[w] = "UploadError"
            /\ inQueue' = inQueue /\ leased' = leased]_vars

\* an upload has failed and the only message that decodes is still queued
C2_Witness ==
  \E w \in Workers : \E m \in Msgs :
    /\ pc[w] = "failed" /\ err[w] = "UploadError"
    /\ \A m2 \in Msgs \ {m} : ~Decodes(body[m2])
    /\ Decodes(body[m]) /\ inQueue[m] /\ leased[m]

\* C3: in an iteration whose renderer exited with 0 and whose upload
\* returned, delete_message is called once and never twice, after the upload
\* and before the next queue.read: a worker back at queue.read after an
\* upload has issued exactly one delete and the message is gone.
C3_DeleteOnce ==
  \A w \in Workers :
    /\ cyc[w].deletes <= 1
    /\ cyc[w].deletes = 1 =>
         cyc[w].upOk /\ cyc[w].uploads = 1 /\ cyc[w].rcs = <<0>>
    /\ cyc[w].upOk => pc[w] \in {"delete", "read", "done"}
    /\ cyc[w].upOk /\ pc[w] = "delete" => cyc[w].deletes = 0
    /\ cyc[w].upOk /\ pc[w] \in {"read", "done"} =>
         cyc[w].deletes = 1 /\ cyc[w].delOk /\ ~inQueue[msg[w]]

C3_Witness ==
  \E w \in Workers :
    /\ pc[w] = "read" /\ cyc[w].upOk /\ cyc[w].deletes = 1
    /\ ~inQueue[msg[w]]

\* C4: a message that is no longer in the queue has its object
\* "{x}_{y}.mbtiles" in the bucket, and the step that removed it was the
\* delete of a worker whose same iteration saw the renderer exit with 0 and
\* the upload of that object return.
C4_DeletedImpliesStored ==
  /\ [](\A m \in Msgs :
          ~inQueue[m] =>
            Decodes(body[m]) /\ MbtilesFile(body[m]) \in Keys(store))
  /\ [][\A m \in Msgs :
          inQueue[m] /\ ~inQueue'[m] =>
            \E w \in Workers :
              /\ pc[w] = "delete" /\ msg[w] = m /\ pc'[w] = "read"
              /\ cyc[w].rcs = <<0>> /\ cyc[w].upOk
              /\ MbtilesFile(body[m]) \in Keys(store)]_vars

\* a message has been deleted and its object is in the bucket, in a run in
\* which a worker process was killed
C4_Witness ==
  \E m \in Msgs : \E w \in Workers :
    /\ ~inQueue[m]
    /\ pc[w] = "crashed"
    /\ [key |-> MbtilesFile(body[m]), content |-> m] \in store

\* C5 as stated: a worker stops making lease attempts only when a
\* queue.read has reported no message; while every read so far returned a
\* message, the worker is still in its loop.  (A worker killed from outside,
\* one whose queue.read raised and one that was handed a body that does not
\* decode are not counted.)
C5_StopsOnlyOnEmptyQueue ==
  \A w \in Workers :
    /\ pc[w] \in Terminal \ {"crashed"}
    /\ err[w] \notin {"ReadError", "DecodeError"}
    => pc[w] = "done"

\* C5 amended: the loop is left normally (break) exactly when a queue.read
\* reports no message, and then for good; before that it is left only by an
\* exception (read, decode, renderer, upload, delete) or by the process
\* being killed; after every iteration that ran to the end of the delete
\* the worker is at queue.read again.
C5_LoopExit ==
  /\ [](\A w \in Workers : pc[w] = "done" <=> status[w] = <<0>>)
  /\ [][\A w \in Workers :
          /\ ReadNone(w) => pc'[w] = "done"
          /\ pc[w] # "done" /\ pc'[w] = "done" =>
               pc[w] = "read" /\ \A m \in Msgs : ~(inQueue[m] /\ ~leased[m])
          /\ pc[w] \in Terminal => pc'[w] = pc[w]
          /\ pc[w] \notin Terminal /\ pc'[w] = "failed" => err'[w] # "none"
          /\ DeleteOk(w) => pc'[w] = "read"]_vars

\* a worker has processed a message to the end, read again and left the loop
\* on a queue with no visible message
C5_Witness ==
  \E w \in Workers :
    /\ pc[w] = "done" /\ msg[w] # None /\ cyc[w].delOk
    /\ ~inQueue[msg[w]]

\* C6: a worker whose renderer exits non-zero, or whose read, upload or
\* delete raises, ends with a non-zero status and makes no further lease
\* attempt; a worker whose read reports no message ends with status 0; and
\* when that is its very first read it has run no renderer, no upload and no
\* delete.
C6_ExitStatus ==
  /\ [](\A w \in Workers :
          /\ pc[w] = "failed" => Len(status[w]) = 1 /\ status[w][1] # 0
          /\ pc[w] = "done" => status[w] = <<0>>
          /\ pc[w] \notin Terminal => status[w] = <<>>
          /\ pc[w] = "done" /\ msg[w] = None => cyc[w] = NewCycle)
  /\ [][\A w \in Workers :
          /\ (\/ \E rc \in ExitCodes \ {0} : RenderExit(w, rc)
              \/ ReadFail(w) \/ UploadFail(w) \/ DeleteFail(w))
               => pc'[w] = "failed" /\ status'[w] # <<0>> /\ status'[w] # <<>>
          /\ pc[w] = "failed" => pc'[w] = "failed" /\ status'[w] = status[w]
          /\ ReadNone(w) => status'[w] = <<0>>
          /\ ReadNone(w) /\ msg[w] = None =>
               store' = store /\ inQueue' = inQueue]_vars

\* one worker has failed in its renderer, another has ended on a first read
\* that reported no message
C6_Witness ==
  \E w1, w2 \in Workers :
    /\ pc[w1] = "failed" /\ err[w1] = "CalledProcessError" /\ status[w1] = <<1>>
    /\ pc[w2] = "done" /\ status[w2] = <<0>> /\ msg[w2] = None

\* C7: a message only leaves the queue by a worker's delete_message; a
\* worker that stops before the delete (decode error, renderer failure,
\* upload failure, delete failure, or being killed at any step) leaves every
\* message in the queue; a leased message in the queue can have its lease
\* run out, and a visible one can be leased by any worker that is at
\* queue.read.
C7_AtLeastOnce ==
  /\ [](\A m \in Msgs :
          /\ inQueue[m] /\ leased[m] => ENABLED LeaseExpire(m)
          /\ inQueue[m] /\ ~leased[m] =>
               \A w \in Workers : pc[w] = "read" => ENABLED ReadMsg(w, m))
  /\ [][/\ \A m \in Msgs :
            inQueue[m] /\ ~inQueue'[m] =>
              \E w \in Workers : DeleteOk(w) /\ msg[w] = m
        /\ \A w \in Workers :
            pc[w] \notin Terminal /\ pc'[w] \in {"failed", "crashed"} =>
              /\ inQueue' = inQueue
              /\ \A m \in Msgs : leased[m] => leased'[m]]_vars

\* the only message that decodes was leased by a worker whose upload failed
\* and is now, after its lease ran out, being processed by another worker
C7_Witness ==
  \E w1, w2 \in Workers : \E m \in Msgs :
    /\ \A m2 \in Msgs \ {m} : ~Decodes(body[m2])
    /\ pc[w1] = "failed" /\ err[w1] = "UploadError"
    /\ pc[w2] = "upload" /\ msg[w2] = m /\ inQueue[m]

\* C8: queue.read never returns a message whose lease has not run out; once
\* it has run out a second worker can lease the message while the first is
\* still processing it; whichever worker then removes the message does so
\* in an iteration whose upload returned, and the delete_message of a
\* message that is already gone changes neither the queue nor the bucket.
C8_ConcurrentWorkers ==
  [][\A w \in Workers :
       /\ \A m \in Msgs : ReadMsg(w, m) => inQueue[m] /\ ~leased[m]
       /\ DeleteOk(w) =>
            /\ cyc[w].upOk /\ cyc[w].uploads = 1
            /\ KeyName(file[w]) \in Keys(store)
       /\ DeleteOk(w) /\ ~inQueue[msg[w]] =>
            UNCHANGED <<inQueue, leased, store>>]_vars

\* two workers have processed the same message side by side and both have
\* deleted it
C8_Witness ==
  \E w1, w2 \in Workers :
    /\ w1 # w2
    /\ msg[w1] # None /\ msg[w1] = msg[w2]
    /\ pc[w1] = "read" /\ cyc[w1].delOk
    /\ pc[w2] = "read" /\ cyc[w2].delOk

\* C9: a worker is at queue.read only before its first lease or after the
\* delete of the message of its previous lease has returned; it makes no
\* lease attempt while that message is rendered, uploaded or awaiting its
\* delete.
C9_Sequential ==
  /\ [](\A w \in Workers :
          pc[w] = "read" =>
            \/ msg[w] = None /\ cyc[w] = NewCycle
            \/ msg[w] # None /\ cyc[w].delOk /\ ~inQueue[msg[w]])
  /\ [][\A w \in Workers :
          (ReadNone(w) \/ ReadFail(w) \/ \E m \in Msgs : ReadMsg(w, m)) =>
            /\ pc[w] = "read"
            /\ msg[w] # None => cyc[w].deletes = 1 /\ cyc[w].delOk]_vars

\* a worker has deleted one message and is rendering the next one
C9_Witness ==
  \E w \in Workers : \E m \in Msgs :
    /\ pc[w] = "render" /\ msg[w] # m /\ ~inQueue[m]
    /\ \A w2 \in Workers \ {w} : pc[w2] = "read" /\ msg[w2] = None

\* C10: the bucket holds at most one object per key; an upload of a job
\* whose key is already in the bucket leaves the set of keys and the number
\* of objects as they are, and every upload stores under the key
\* "{x}_{y}.mbtiles" of its job.
C10_IdempotentUpload ==
  /\ [](\A o1, o2 \in store : o1.key = o2.key => o1 = o2)
  /\ [][\A w \in Workers :
          UploadOk(w) =>
            /\ Keys(store') = Keys(store) \cup {MbtilesFile(body[msg[w]])}
            /\ MbtilesFile(body[msg[w]]) \in Keys(store) =>
                 /\ Keys(store') = Keys(store)
                 /\ Cardinality(store') = Cardinality(store)]_vars

\* the same message has been uploaded by two workers and the bucket holds one
\* object
C10_Witness ==
  \E w1, w2 \in Workers :
    /\ w1 # w2
    /\ msg[w1] # None /\ msg[w1] = msg[w2]
    /\ cyc[w1].upOk /\ cyc[w2].upOk
    /\ Cardinality(store) = 1

\* ------------------------------------------------- reading a text back
\* the tokens of a text between the separator characters
RECURSIVE Split(_, _)
Split(t, sep) ==
  IF \E i \in 1..Len(t) : t[i] = sep
    THEN LET i == CHOOSE i \in 1..Len(t) :
                    t[i] = sep /\ \A j \in 1..(i - 1) : t[j] # sep
         IN <<SubSeq(t, 1, i - 1)>> \o Split(SubSeq(t, i + 1, Len(t)), sep)
    ELSE <<t>>

DigitVal(c) ==
  CASE c = "0" -> 0 [] c = "1" -> 1 [] c = "2" -> 2 [] c = "3" -> 3
    [] c = "4" -> 4 [] c = "5" -> 5 [] c = "6" -> 6 [] c = "7" -> 7
    [] c = "8" -> 8 [] c = "9" -> 9 [] OTHER -> -1

RECURSIVE NatVal(_)
NatVal(t) == IF Len(t) = 1 THEN DigitVal(t[1])
             ELSE 10 * NatVal(SubSeq(t, 1, Len(t) - 1)) + DigitVal(t[Len(t)])

\* the integer a decimal text stands for
IntVal(t) == IF t[1] = "-" THEN 0 - NatVal(Tail(t)) ELSE NatVal(t)

C12_BboxAndZoom ==
  \A w \in Workers :
    cmd[w] # <<>> =>
      LET b == body[msg[w]]
          parts == Split(cmd[w][6], " ")
      IN /\ cmd[w][5] = "-b"
         /\ Len(parts) = 4
         /\ \A i \in 1..4 : Len(parts[i]) > 0
         /\ IntVal(parts[1]) = b.bounds.west
         /\ IntVal(parts[2]) = b.bounds.south
         /\ IntVal(parts[3]) = b.bounds.east
         /\ IntVal(parts[4]) = b.bounds.north
         /\ cmd[w][7] = "--min-zoom" /\ IntVal(cmd[w][8]) = b.min_zoom
         /\ cmd[w][9] = "--max-zoom" /\ IntVal(cmd[w][10]) = b.max_zoom
         /\ b = JobA =>
              /\ cmd[w][6] = <<"-", "1", "0", " ", "4", "0", " ",
                               "1", "0", " ", "6", "0">>
              /\ cmd[w][8] = <<"4">> /\ cmd[w][10] = <<"8">>

\* commands have been built for the job of the example and for a job with
\* negative and three-digit bounds
C12_Witness ==
  \E w1, w2 \in Workers :
    /\ cmd[w1] # <<>> /\ body[msg[w1]] = JobA
    /\ cmd[w2] # <<>> /\ body[msg[w2]] = JobC

\* C13: the file name reads back as x, "_", y, ".mbtiles"; two leases of
\* jobs with the same x and y have the same file name whatever their bounds
\* and zooms; the key an upload stores under is the file name.
C13_ArtifactName ==
  /\ \A w \in Workers :
       msg[w] # None =>
         LET b == body[msg[w]]
             stem == SubSeq(file[w], 1, Len(file[w]) - Len(Suffix))
         IN /\ SubSeq(file[w], Len(stem) + 1, Len(file[w])) = Suffix
            /\ Len(Split(stem, "_")) = 2
            /\ IntVal(Split(stem, "_")[1]) = b.x
            /\ IntVal(Split(stem, "_")[2]) = b.y
            /\ KeyName(file[w]) = file[w]
            /\ cyc[w].upOk => file[w] \in Keys(store)
  /\ \A w1, w2 \in Workers :
       /\ msg[w1] # None /\ msg[w2] # None
       /\ body[msg[w1]].x = body[msg[w2]].x
       /\ body[msg[w1]].y = body[msg[w2]].y
       => file[w1] = file[w2]
  /\ \A o \in store : \E m \in Msgs : o.key = MbtilesFile(body[m])

\* two jobs of the same tile with different bounds and zooms have been
\* uploaded under one key
C13_Witness ==
  \E w1, w2 \in Workers :
    /\ msg[w1] # None /\ msg[w2] # None
    /\ body[msg[w1]] = JobA /\ body[msg[w2]] = JobA2
    /\ cyc[w1].upOk /\ cyc[w2].upOk
    /\ Cardinality(store) = 1

\* a body that is a JSON object with every field of a job, each of the
\* type of a job's field
WellTyped(b) ==
  /\ "garbage" \notin DOMAIN b
  /\ Fields \subseteq DOMAIN b
  /\ StrFields(b) = {}

\* C14: a body that is not valid JSON, lacks a field, or has a field of the
\* wrong type fails before the renderer is invoked: no renderer command is
\* built, nothing is rendered, uploaded or deleted for it, the message stays
\* in the queue and the worker has ended with a failure.
C14_BadBodyNeverRendered ==
  /\ \A w \in Workers :
       msg[w] # None /\ pc[w] \in {"render", "upload", "delete"} =>
         WellTyped(body[msg[w]])
  /\ \A m \in Msgs :
       ~WellTyped(body[m]) =>
         /\ inQueue[m]
         /\ \A w \in Workers : msg[w] = m => cmd[w] = <<>>

\* C15 as stated: after a body that does not decode the worker loop is
\* still running, on its way to the next lease attempt.
C15_LoopSurvivesBadBody ==
  \A w \in Workers : err[w] = "DecodeError" => pc[w] \notin Terminal

\* C15: a body that does not decode ends the worker: the step that leases it
\* leaves the worker failed with exit status 1, the message still in the
\* queue under its lease, the store and the other workers as they were; the
\* worker makes no further lease attempt.
C15_BadBodyEndsWorker ==
  /\ [](\A w \in Workers :
          err[w] = "DecodeError" =>
            /\ pc[w] = "failed" /\ status[w] = <<1>>
            /\ ~ENABLED ReadNone(w)
            /\ \A m \in Msgs : ~ENABLED ReadMsg(w, m))
  /\ [][\A w \in Workers, m \in Msgs :
          ReadMsg(w, m) /\ ~Decodes(body[m]) =>
            /\ pc'[w] = "failed" /\ err'[w] = "DecodeError"
            /\ status'[w] = <<1>>
            /\ inQueue' = inQueue /\ inQueue[m] /\ leased'[m]
            /\ store' = store
            /\ \A v \in Workers \ {w} : pc'[v] = pc[v] /\ msg'[v] = msg[v]]_vars

\* a worker has ended on a body that does not decode while a message is
\* still visible to be leased
C15_Witness ==
  \E w \in Workers, m \in Msgs :
    /\ err[w] = "DecodeError" /\ pc[w] = "failed"
    /\ Readable # {}
    /\ ~Decodes(body[m]) /\ inQueue[m] /\ leased[m]

\* C16: on a finite queue to which nothing is added, with every renderer run
\* exiting 0 and every lease, upload and delete succeeding, each worker
\* eventually terminates; it leases a further message only when the one it
\* leased before has been deleted, no deleted message comes back, and when
\* it has terminated the last message it leased has been deleted: every
\* message it leased has been deleted.
C16_DrainTerminates ==
  /\ \A w \in Workers : <>(pc[w] = "done" /\ status[w] = <<0>>)
  /\ [](\A w \in Workers :
          pc[w] = "done" /\ msg[w] # None => ~inQueue[msg[w]])
  /\ [][/\ \A w \in Workers, m \in Msgs :
             ReadMsg(w, m) /\ msg[w] # None => ~inQueue[msg[w]]
         /\ \A n \in Msgs : ~inQueue[n] => ~inQueue'[n]
         /\ \A v \in Workers : pc[v] = "done" => pc'[v] = "done"]_vars

\* every worker has terminated, each after at least one job
C16_Witness ==
  /\ \A w \in Workers : pc[w] = "done" /\ msg[w] # None /\ cyc[w].delOk
  /\ \E v, w \in Workers : msg[v] # msg[w]

\* C17: a renderer subprocess that has been started and not yet waited for
\* exists only while its worker is inside export_local: whichever way
\* export_local is left (exit code 0, non-zero exit code, interruption of the
\* worker) the subprocess has been reaped, and a worker at the upload or the
\* delete has the exit code of its renderer.
C17_RendererReaped ==
  \A w \in Workers :
    /\ cyc[w].child => pc[w] = "render"
    /\ pc[w] \in {"upload", "delete"} => Len(cyc[w].rcs) = 1

\* C18: within the iteration of one lease the renderer has been started at
\* most once, the upload called at most once and the delete called at most
\* once; a worker enters the render step only by a step in which queue.read
\* returns it a message that is in the queue and visible; no step leads from
\* the upload or the delete back to an earlier step of the same iteration.
C18_NoRetry ==
  /\ [](\A w \in Workers :
          /\ cyc[w].renders <= 1 /\ Len(cyc[w].rcs) <= 1
          /\ cyc[w].uploads <= 1 /\ cyc[w].deletes <= 1)
  /\ [][\A w \in Workers :
          /\ pc'[w] = "render" /\ (pc[w] # "render" \/ cyc'[w] # cyc[w]) =>
               \E m \in Msgs :
                 /\ ReadMsg(w, m) /\ inQueue[m] /\ ~leased[m]
                 /\ cyc'[w].renders = 1 /\ cyc'[w].uploads = 0
                 /\ cyc'[w].deletes = 0
          /\ pc[w] = "render" => pc'[w] \in {"render", "upload"} \cup Terminal
          /\ pc[w] = "upload" => pc'[w] \in {"upload", "delete"} \cup Terminal
          /\ pc[w] = "delete" => pc'[w] \in {"delete", "read"} \cup Terminal]_vars

\* a job is rendered a second time, by a later lease, while the worker of the
\* earlier lease is still at its upload or delete
C18_Witness ==
  \E w, v \in Workers :
    /\ msg[w] # None /\ msg[w] = msg[v]
    /\ pc[w] = "render" /\ cyc[w].renders = 1
    /\ pc[v] \in {"upload", "delete"} /\ cyc[v].renders = 1

\* C19: when every worker has terminated with status 0, no message is in
\* the queue, visible or leased, and the bucket holds the object
\* "{x}_{y}.mbtiles" of every job that was in the queue; a worker that exits
\* on a read reporting no message does not change the queue or the bucket.
C19_DrainComplete ==
  /\ []((\A w \in Workers : pc[w] = "done" /\ status[w] = <<0>>) =>
          \A m \in Msgs :
            /\ ~inQueue[m]
            /\ Decodes(body[m])
            /\ MbtilesFile(body[m]) \in Keys(store))
  /\ [][\A w \in Workers :
          ReadNone(w) =>
            /\ inQueue' = inQueue /\ leased' = leased /\ store' = store
            /\ \A m \in Msgs : inQueue[m] =>
                 \E v \in Workers \ {w} :
                   pc[v] \in {"render", "upload", "delete"} \cup Terminal]_vars

\* every worker has terminated with status 0, one of them without ever
\* having leased a job: its only read found the remaining message leased
C19_Witness ==
  /\ \A w \in Workers : pc[w] = "done" /\ status[w] = <<0>>
  /\ \E w \in Workers : msg[w] = None /\ cyc[w] = NewCycle
  /\ \A m \in Msgs : ~inQueue[m] /\ MbtilesFile(body[m]) \in Keys(store)

=============================================================================
